---- MODULE Spec2Model ----
(***************************************************************************)
(* Password strength checker (password_strength_checker.py and its older   *)
(* revision Password-Strength-Checker.py).                                 *)
(*                                                                         *)
(* Strings.  A Python string is a sequence of text pieces whose            *)
(* concatenation is the string.  Passwords and wordlist entries have one   *)
(* piece per character.  Messages are cut so that every occurrence of the   *)
(* two separators the program splits on, ", " and "Suggestions: ", is a     *)
(* piece of its own; all other text is kept in pieces as written in the     *)
(* source.                                                                 *)
(***************************************************************************)
EXTENDS Integers, Sequences, FiniteSets, TLC

VARIABLES
    file,             \* which source file's evaluator runs in this process
    weak_wordlist,    \* PasswordStrength.weak_wordlist, per evaluator
    banned_wordlist,  \* PasswordStrength.banned_wordlist, per evaluator
    input,            \* the password under test
    oracle,           \* zxcvbn: the answers it has given, one per password asked
    cache,            \* the lru_cache of check_password_strength, LRU first
    last,             \* the last call: its arguments, what it ran, its result
    seen,             \* history: the first result returned for each probe key
    age,              \* history: distinct keys evaluated since a probe key's last call
    ageSelf,          \* history: the same, counting the key's own evaluator only
    was,              \* history: where the last call's key stood before the call
    nfresh,           \* number of never-seen-before passwords evaluated so far
    bulk,             \* the evaluator that evaluates the never-seen-before passwords
    disk,             \* the file system: what open() finds at each wordlist path
    Wordlist_cache,   \* Wordlist._cache: path |-> the list loaded for it
    loads,            \* the load_wordlist calls of the last PasswordStrength(...)
    first             \* history: path |-> the list of its first successful load

\* the variables of Wordlist loading
wordlist_vars == <<disk, Wordlist_cache, loads, first>>

vars == <<file, weak_wordlist, banned_wordlist, input, oracle, cache, last, seen, age,
          ageSelf, was, nfresh, bulk, disk, Wordlist_cache, loads, first>>

(***************************************************************************)
(* Characters                                                              *)
(***************************************************************************)
ascii_uppercase ==
    {"A","B","C","D","E","F","G","H","I","J","K","L","M",
     "N","O","P","Q","R","S","T","U","V","W","X","Y","Z"}

ascii_lowercase ==
    {"a","b","c","d","e","f","g","h","i","j","k","l","m",
     "n","o","p","q","r","s","t","u","v","w","x","y","z"}

digits == {"0","1","2","3","4","5","6","7","8","9"}

\* string.punctuation; the piece "GRAVE" stands for the grave accent, which a
\* TLA+ string literal cannot hold
punctuation ==
    {"!","\"","#","$","%","&","'","(",")","*","+",",","-",".","/",":",
     ";","<","=",">","?","@","[","\\","]","^","_","GRAVE","{","|","}","~"}

\* the character class of the regular expression [!@#$%^&*(),.?":{}|<>]
special_characters ==
    {"!","@","#","$","%","^","&","*","(",")",",",".","?","\"",":",
     "{","}","|","<",">"}

\* the characters the regular expression \d matches in a str pattern: the
\* ASCII digits and every other Unicode decimal digit, of which the piece
\* "ARABIC-INDIC DIGIT THREE" stands for one
decimal_digits == digits \cup {"ARABIC-INDIC DIGIT THREE"}

\* string.ascii_letters + string.digits + string.punctuation
characters == ascii_uppercase \cup ascii_lowercase \cup digits \cup punctuation

\* re.search(r'[A-Z]', s), re.search(r'[a-z]', s), ... : some character of s
\* is in the class
re_search(class, s) == \E i \in 1..Len(s) : s[i] \in class

(***************************************************************************)
(* String helpers                                                          *)
(***************************************************************************)
RECURSIVE join(_, _)
\* sep.join(items): items is a sequence of strings
join(sep, items) ==
    IF Len(items) = 0 THEN <<>>
    ELSE IF Len(items) = 1 THEN items[1]
    ELSE items[1] \o sep \o join(sep, Tail(items))

RECURSIVE split(_, _)
\* s.split(sep) for a one-piece separator: the strings between its
\* occurrences; ''.split(sep) is ['']
split(s, sep) ==
    IF \E i \in 1..Len(s) : s[i] = sep
    THEN LET i == CHOOSE j \in 1..Len(s) :
                      s[j] = sep /\ \A k \in 1..(j-1) : s[k] # sep
         IN  <<SubSeq(s, 1, i-1)>> \o split(SubSeq(s, i+1, Len(s)), sep)
    ELSE <<s>>

\* lower, had the code left the label as it is
lower_unchanged(label) == label

\* str.lower() on the strength labels
lower(label) ==
    CASE label = "Very Weak"   -> "very weak"
      [] label = "Weak"        -> "weak"
      [] label = "Moderate"    -> "moderate"
      [] label = "Strong"      -> "strong"
      [] label = "Very Strong" -> "very strong"
      [] OTHER                 -> label

\* str(score) for a score 0..4
str(n) ==
    CASE n = 0 -> "0" [] n = 1 -> "1" [] n = 2 -> "2" [] n = 3 -> "3" [] n = 4 -> "4"

(***************************************************************************)
(* Wordlist                                                                *)
(***************************************************************************)
\* the value None of an optional Wordlist
None == [is_none |-> TRUE, words |-> <<>>]

\* a Wordlist object holding the loaded words
Wordlist(words) == [is_none |-> FALSE, words |-> words]

\* word in self.words
is_word_in_list(wordlist, word) ==
    \E i \in 1..Len(wordlist.words) : wordlist.words[i] = word

\* what open(file_path) finds: no file, a file that cannot be read or decoded,
\* or a text file (its decoded text, one piece per character)
NoFile == [exists |-> FALSE, readable |-> FALSE, text |-> <<>>]

Unreadable == [exists |-> TRUE, readable |-> FALSE, text |-> <<>>]

TextFile(text) == [exists |-> TRUE, readable |-> TRUE, text |-> text]

\* the characters str.strip() removes (those of them a file of the model holds)
whitespace == {" ", "\t", "\n", "\r", "\f"}

\* for line in file: the text cut after every newline; the text after the
\* last newline is a line too when it is not empty
RECURSIVE lines(_)
lines(text) ==
    LET ends == {i \in 1..Len(text) : text[i] = "\n"}
    IN  IF text = <<>> THEN <<>>
        ELSE IF ends = {} THEN <<text>>
        ELSE LET e == CHOOSE i \in ends : \A j \in ends : i <= j
             IN  <<SubSeq(text, 1, e)>> \o lines(SubSeq(text, e + 1, Len(text)))

\* line.rstrip() in the place of line.strip()
strip_trailing(line) ==
    LET kept == {i \in 1..Len(line) : line[i] \notin whitespace}
    IN  IF kept = {} THEN <<>>
        ELSE SubSeq(line, 1, CHOOSE i \in kept : \A j \in kept : i >= j)

\* line.strip(): the line without its leading and its trailing whitespace
strip(line) ==
    LET kept == {i \in 1..Len(line) : line[i] \notin whitespace}
    IN  IF kept = {} THEN <<>>
        ELSE SubSeq(line, CHOOSE i \in kept : \A j \in kept : i <= j,
                          CHOOSE i \in kept : \A j \in kept : i >= j)

\* the outcome of one load_wordlist call: the exception raised ("" for
\* none), whether the file was opened, the text read, the list returned and
\* Wordlist._cache after the call
Loaded(file_path, raised, opened, text, words, c) ==
    [file_path |-> file_path, raised |-> raised, opened |-> opened, text |-> text,
     words |-> words, cache |-> c]

\* [line.strip() for line in file], stored under the path and returned
read_wordlist(c, d, file_path) ==
    IF ~d[file_path].exists
    THEN Loaded(file_path, "FileNotFoundError", TRUE, <<>>, <<>>, c)
    ELSE IF ~d[file_path].readable
    THEN Loaded(file_path, "RuntimeError", TRUE, <<>>, <<>>, c)
    ELSE LET text == d[file_path].text
             line == lines(text)
             wordlist == [i \in 1..Len(line) |-> strip(line[i])]
         IN  Loaded(file_path, "", TRUE, text, wordlist, (file_path :> wordlist) @@ c)

load_wordlist_reload(c, d, file_path) == read_wordlist(c, d, file_path)

\* Wordlist.load_wordlist with Wordlist._cache = c and the file system d
load_wordlist(c, d, file_path) ==
    IF file_path \in DOMAIN c
    THEN Loaded(file_path, "", FALSE, <<>>, c[file_path], c)
    ELSE read_wordlist(c, d, file_path)

\* a path that is false in the test of weak_wordlist_path: "" or None
NoPath == ""

WeakPath == "./weak_passwords.txt"

BannedPath == "./banned_passwords.txt"

Paths == {WeakPath, BannedPath}

(***************************************************************************)
(* PasswordStrength                                                        *)
(***************************************************************************)
NewFile == "password_strength_checker.py"
OldFile == "Password-Strength-Checker.py"
Files == {NewFile, OldFile}

min_password_length == 12

\* strength_mapping, had the two top labels been exchanged
strength_mapping_exchanged ==
    [s \in 0..4 |-> CASE s = 0 -> "Very Weak"
                      [] s = 1 -> "Weak"
                      [] s = 2 -> "Moderate"
                      [] s = 3 -> "Very Strong"
                      [] s = 4 -> "Strong"]

strength_mapping ==
    [s \in 0..4 |-> CASE s = 0 -> "Very Weak"
                      [] s = 1 -> "Weak"
                      [] s = 2 -> "Moderate"
                      [] s = 3 -> "Strong"
                      [] s = 4 -> "Very Strong"]

StrengthResult(strength, score, message) ==
    [strength |-> strength, score |-> score, message |-> message]

TooShortMessage == <<"Password should be at least 12 characters long.">>
WeakListMessage == <<"Password is commonly used and easily guessable.">>

\* the banned-list message of password_strength_checker.py
BannedMessageNew ==
    <<"This password is not allowed", ", ", "as it is commonly found in data leaks.">>

\* the banned-list message of Password-Strength-Checker.py
BannedMessageOld ==
    <<"This password is not allowed", ", ",
      "as it is a commonly found password in data leaks.">>

\* the banned-list message of source file f
BannedMessage(f) == IF f = NewFile THEN BannedMessageNew ELSE BannedMessageOld

\* the complexity_issues list, in the order the code appends to it
complexity_issues(password) ==
    (IF ~re_search(ascii_uppercase, password) THEN << <<"uppercase letter">> >> ELSE <<>>)
    \o (IF ~re_search(ascii_lowercase, password) THEN << <<"lowercase letter">> >> ELSE <<>>)
    \o (IF ~re_search(decimal_digits, password) THEN << <<"number">> >> ELSE <<>>)
    \o (IF ~re_search(special_characters, password) THEN << <<"special character">> >> ELSE <<>>)

\* what one run of the body did besides computing its result
Ran(weak, banned, orc, result) ==
    [weak_checked |-> weak, banned_checked |-> banned, oracle_called |-> orc,
     result |-> result]

\* scoring, had the score been classified before the complexity check
scoring_score_first(zx, password) ==
    LET score    == zx.score
        strength == strength_mapping[score]
        issues   == complexity_issues(password)
    IN  IF score >= 3
        THEN Ran(FALSE, FALSE, TRUE,
                 StrengthResult(strength, score,
                     <<"Password meets all the requirements. Score: ",
                       str(score), "/4">>))
        ELSE IF Len(issues) > 0
        THEN Ran(FALSE, FALSE, TRUE,
                 StrengthResult("Weak", score,
                     <<"Password lacks complexity. Missing: ">>
                     \o join(<<", ">>, issues) \o <<".">>))
        ELSE Ran(FALSE, FALSE, TRUE,
                 StrengthResult(strength, score,
                     <<"Password is ", lower(strength), ". ", "Suggestions: ">>
                     \o join(<<", ">>, zx.suggestions)))

\* Oracle scoring, complexity check and final classification.
\* zx: what zxcvbn(password) returns.
scoring(zx, password) ==
    LET score    == zx.score
        strength == strength_mapping[score]
        issues   == complexity_issues(password)
    IN  IF Len(issues) > 0
        THEN Ran(FALSE, FALSE, TRUE,
                 StrengthResult("Weak", score,
                     <<"Password lacks complexity. Missing: ">>
                     \o join(<<", ">>, issues) \o <<".">>))
        ELSE IF score >= 3
        THEN Ran(FALSE, FALSE, TRUE,
                 StrengthResult(strength, score,
                     <<"Password meets all the requirements. Score: ",
                       str(score), "/4">>))
        ELSE Ran(FALSE, FALSE, TRUE,
                 StrengthResult(strength, score,
                     <<"Password is ", lower(strength), ". ", "Suggestions: ">>
                     \o join(<<", ">>, zx.suggestions)))

\* wordlist_gates, had the banned list been searched before the weak list
wordlist_gates_banned_first(f, weak, banned, zx, password) ==
    IF ~banned.is_none /\ is_word_in_list(banned, password)
    THEN Ran(FALSE, TRUE, FALSE, StrengthResult("Banned", 0, BannedMessage(f)))
    ELSE IF ~weak.is_none /\ is_word_in_list(weak, password)
    THEN Ran(TRUE, ~banned.is_none, FALSE, StrengthResult("Weak", 0, WeakListMessage))
    ELSE [scoring(zx, password) EXCEPT !.weak_checked = ~weak.is_none,
                                       !.banned_checked = ~banned.is_none]

\* The wordlist gates and what follows them.  A Wordlist object is truthy,
\* so a configured list is always searched.
wordlist_gates(f, weak, banned, zx, password) ==
    IF ~weak.is_none /\ is_word_in_list(weak, password)
    THEN Ran(TRUE, FALSE, FALSE, StrengthResult("Weak", 0, WeakListMessage))
    ELSE IF ~banned.is_none /\ is_word_in_list(banned, password)
    THEN Ran(~weak.is_none, TRUE, FALSE, StrengthResult("Banned", 0, BannedMessage(f)))
    ELSE [scoring(zx, password) EXCEPT !.weak_checked = ~weak.is_none,
                                       !.banned_checked = ~banned.is_none]

\* check_password_strength_body, had the length been checked after the
\* wordlists
check_password_strength_body_lists_first(f, weak, banned, zx, password) ==
    IF \/ ~weak.is_none /\ is_word_in_list(weak, password)
       \/ ~banned.is_none /\ is_word_in_list(banned, password)
    THEN wordlist_gates(f, weak, banned, zx, password)
    ELSE IF Len(password) < min_password_length
    THEN Ran(~weak.is_none, ~banned.is_none, FALSE,
             StrengthResult("Too short", 0, TooShortMessage))
    ELSE wordlist_gates(f, weak, banned, zx, password)

\* The body of check_password_strength (the function under the lru_cache).
\* f: the source file; weak, banned: the evaluator's wordlists;
\* zx: what zxcvbn(password) returns, read only where the code calls it.
check_password_strength_body(f, weak, banned, zx, password) ==
    IF Len(password) < min_password_length
    THEN Ran(FALSE, FALSE, FALSE, StrengthResult("Too short", 0, TooShortMessage))
    ELSE wordlist_gates(f, weak, banned, zx, password)

(***************************************************************************)
(* The lru_cache around check_password_strength.  The decorator sits on    *)
(* the function in the class body, so there is one cache for the process,  *)
(* keyed by the call's arguments (self, password).  The cache is a         *)
(* sequence of entries, least recently used first.                         *)
(***************************************************************************)
maxsize == 1000

\* cache_key, had the cache been keyed by the password alone
cache_key_password_only(self, password) == <<"", password>>

\* the key of a call: its positional arguments, self included
cache_key(self, password) == <<self, password>>

\* the position of key in the cache c, 0 when it is not there
cache_index(c, key) ==
    IF \E i \in 1..Len(c) : c[i].key = key
    THEN CHOOSE i \in 1..Len(c) : c[i].key = key
    ELSE 0

\* lru_hit, had a hit left the order alone (first in, first out)
lru_hit_no_refresh(c, i) == c

\* a hit on entry i makes it the most recently used
lru_hit(c, i) == SubSeq(c, 1, i-1) \o SubSeq(c, i+1, Len(c)) \o <<c[i]>>

\* a miss stores the new entry; a full cache drops its least recently used
lru_store(c, entry) ==
    IF Len(c) >= maxsize THEN Append(Tail(c), entry) ELSE Append(c, entry)

\* self.check_password_strength(password) through the cache c: whether it
\* hit, what ran, the result, and the cache afterwards
lru_cache_wrapper(c, self, password, zx) ==
    LET key == cache_key(self, password)
        i   == cache_index(c, key)
    IN  IF i > 0
        THEN [hit |-> TRUE, ran |-> Ran(FALSE, FALSE, FALSE, c[i].result),
              cache |-> lru_hit(c, i)]
        ELSE LET ran == check_password_strength_body(
                            file, weak_wordlist[self], banned_wordlist[self],
                            zx, password)
             IN  [hit |-> FALSE, ran |-> ran,
                  cache |-> lru_store(c, [key |-> key, result |-> ran.result])]

\* self.check_password_strength(password) on the cache as it is
check_password_strength(self, password, zx) ==
    lru_cache_wrapper(cache, self, password, zx)

(***************************************************************************)
(* suggest_improvements and generate_random_password                       *)
(***************************************************************************)
\* the suggestions list of suggest_improvements, given the evaluation result
suggestions_of(password, result) ==
    LET missing ==
          (IF Len(password) < min_password_length
           THEN << <<"Increase length to at least ", "12", " characters">> >> ELSE <<>>)
          \o (IF ~re_search(ascii_uppercase, password)
              THEN << <<"Add uppercase letters">> >> ELSE <<>>)
          \o (IF ~re_search(ascii_lowercase, password)
              THEN << <<"Add lowercase letters">> >> ELSE <<>>)
          \o (IF ~re_search(decimal_digits, password)
              THEN << <<"Add numbers">> >> ELSE <<>>)
          \o (IF ~re_search(special_characters, password)
              THEN << <<"Add special characters">> >> ELSE <<>>)
        parts == split(result.message, "Suggestions: ")
    IN  IF Len(missing) = 0 THEN split(parts[Len(parts)], ", ") ELSE missing

\* the text suggest_improvements returns for a suggestions list
suggestions_text(suggestions) ==
    <<"Suggested improvements:\n\n">>
    \o join(<<"\n">>, [i \in 1..Len(suggestions) |-> <<"- ">> \o suggestions[i]])

\* range(length): the number of iterations of the generator's loop
range_len(length) == IF length > 0 THEN length ELSE 0

\* generate_random_password, had it drawn from string.printable's blank too
generate_random_password_with_blank(length) ==
    [1..range_len(length) -> characters \cup {" "}]

\* the strings generate_random_password(length) can return: one
\* random.choice(characters) per iteration
generate_random_password(length) == [1..range_len(length) -> characters]

(***************************************************************************)
(* Inputs                                                                  *)
(***************************************************************************)
Evaluators == {"e1", "e2"}

\* a run of n characters of no required class ("_" is punctuation, but not
\* one of the special characters)
Pad(n) == [i \in 1..n |-> "_"]

\* one character of each required class, and one of none
BodyChars == {"A", "a", "1", "!", "_"}

\* the tested passwords end in one character slot per required class
BodyLen == Cardinality({"uppercase", "lowercase", "number", "special"})

\* the padding that leaves a password one character short of the minimum
MinPad == min_password_length - BodyLen - 1

MaxExtraPad == 1

\* the tested passwords: the empty one, the bare slots, and the slots after
\* a padding that makes the length one less than the minimum, the minimum,
\* ... up to MaxExtraPad - 1 more
Passwords ==
    {<<>>}
    \cup [1..BodyLen -> BodyChars]
    \cup {Pad(n) \o b : n \in MinPad..(MinPad + MaxExtraPad), b \in [1..BodyLen -> BodyChars]}

\* a wordlist entry that is none of the tested passwords
Decoy == <<"p","a","s","s","w","o","r","d","1","2","3","4","5","6">>

\* PasswordStrength.__init__ with Wordlist._cache = c and the file system d:
\* the weak wordlist is loaded first; an exception of a load leaves the
\* constructor at once
PasswordStrength_init(c, d, weak_wordlist_path, banned_wordlist_path) ==
    LET w == IF weak_wordlist_path # NoPath
             THEN <<load_wordlist(c, d, weak_wordlist_path)>> ELSE <<>>
        c1 == IF Len(w) = 1 THEN w[1].cache ELSE c
        weak_raised == Len(w) = 1 /\ w[1].raised # ""
        b == IF ~weak_raised /\ banned_wordlist_path # NoPath
             THEN <<load_wordlist(c1, d, banned_wordlist_path)>> ELSE <<>>
        c2 == IF Len(b) = 1 THEN b[1].cache ELSE c1
    IN  [calls |-> w \o b,
         raised |-> IF weak_raised THEN w[1].raised
                    ELSE IF Len(b) = 1 THEN b[1].raised ELSE "",
         weak_wordlist |-> IF Len(w) = 1 THEN Wordlist(w[1].words) ELSE None,
         banned_wordlist |-> IF Len(b) = 1 THEN Wordlist(b[1].words) ELSE None,
         cache |-> c2]

\* history: the list of the first successful load of each path
Remember(f, l) ==
    IF l.raised = "" /\ l.file_path \notin DOMAIN f
    THEN (l.file_path :> l.words) @@ f ELSE f

\* history: first before the i-th load_wordlist call of a construction that
\* began with the history f
FirstBefore(f, calls, i) == IF i = 1 THEN f ELSE Remember(f, calls[1])

\* history: first after all the load_wordlist calls of a construction
FirstAfter(f, calls) ==
    IF Len(calls) = 0 THEN f
    ELSE Remember(FirstBefore(f, calls, Len(calls)), calls[Len(calls)])

\* the load_wordlist calls of evaluator self's construction, each with
\* whether its path had been loaded before
LoadRecords(self, calls, f) ==
    [i \in 1..Len(calls) |->
        [self |-> self,
         file_path |-> calls[i].file_path,
         raised |-> calls[i].raised,
         opened |-> calls[i].opened,
         text |-> calls[i].text,
         words |-> calls[i].words,
         known |-> calls[i].file_path \in DOMAIN FirstBefore(f, calls, i)]]

\* a fresh process (Wordlist._cache = {}) with the file system d, after
\* e1 = PasswordStrength(wp["e1"], bp["e1"]) and then
\* e2 = PasswordStrength(wp["e2"], bp["e2"]), neither of which raised
Started(d, wp, bp) ==
    LET m1 == PasswordStrength_init(<<>>, d, wp["e1"], bp["e1"])
        m2 == PasswordStrength_init(m1.cache, d, wp["e2"], bp["e2"])
        f1 == FirstAfter(<<>>, m1.calls)
    IN  /\ m1.raised = "" /\ m2.raised = ""
        /\ disk = d
        /\ weak_wordlist = [e \in Evaluators |->
                               IF e = "e1" THEN m1.weak_wordlist ELSE m2.weak_wordlist]
        /\ banned_wordlist = [e \in Evaluators |->
                                 IF e = "e1" THEN m1.banned_wordlist
                                 ELSE m2.banned_wordlist]
        /\ Wordlist_cache = m2.cache
        /\ loads = LoadRecords("e2", m2.calls, f1)
        /\ first = FirstAfter(f1, m2.calls)

\* no wordlist path for any evaluator
NoPaths == [e \in Evaluators |-> NoPath]

\* the path p for evaluator e when the file f is there, no path otherwise
PathFor(e, p, f) == [x \in Evaluators |-> IF x = e /\ f.exists THEN p ELSE NoPath]

\* the file system with w at the weak and b at the banned wordlist's path
Disk(w, b) == [p \in Paths |-> IF p = WeakPath THEN w ELSE b]

\* the text of a wordlist file: one entry per line
RECURSIVE file_text(_)
file_text(words) ==
    IF Len(words) = 0 THEN <<>>
    ELSE Head(words) \o <<"\n">> \o file_text(Tail(words))

\* a wordlist file holding the decoy alone
BannedFile == TextFile(file_text(<<Decoy>>))

\* the wordlist files an evaluator may be built from when it tests password
\* p: none (and no path), the decoy alone, the decoy and p
WordlistFilesFor(p) ==
    {NoFile, TextFile(file_text(<<Decoy>>)), TextFile(file_text(<<Decoy, p>>))}

\* zxcvbn's answers: every score with each of three suggestion lists; the
\* last suggestion is one whose text holds a comma and a space
Answers ==
    [score : 0..4,
     suggestions : { <<>>,
                     << <<"Add another word or two. Uncommon words are better.">>,
                        <<"Avoid sequences">> >>,
                     << <<"Use a few words", ", ", "avoid common phrases">> >> }]

\* zxcvbn is a function of the password: once it has answered for p, it
\* gives that answer again
AnswersFor(p) ==
    IF \E r \in oracle : r.password = p
    THEN {r.answer : r \in {x \in oracle : x.password = p}}
    ELSE Answers

NoAnswer == [score |-> 0, suggestions |-> <<>>]

\* the answers zxcvbn can give in a call self.check_password_strength(password):
\* only a call that reaches zxcvbn(password) reads one
AnswersIn(self, password, answers) ==
    IF check_password_strength(self, password, NoAnswer).ran.oracle_called
    THEN answers ELSE {NoAnswer}

NoResult == StrengthResult("", 0 - 1, <<>>)

Idle ==
    [op |-> "none", self |-> "", password |-> <<>>, length |-> 0, zx |-> NoAnswer,
     hit |-> FALSE, weak_checked |-> FALSE, banned_checked |-> FALSE,
     oracle_called |-> FALSE, result |-> NoResult, bullets |-> <<>>, text |-> <<>>]

NotProbed == [seen |-> FALSE, recent |-> FALSE, recent_self |-> FALSE]

(***************************************************************************)
(* Operations                                                              *)
(***************************************************************************)
\* the record of a call of check_password_strength with outcome out
CheckRecord(self, password, zx, out) ==
    [Idle EXCEPT !.op = "check", !.self = self, !.password = password,
                 !.zx = IF out.ran.oracle_called THEN zx ELSE Idle.zx,
                 !.hit = out.hit,
                 !.weak_checked = out.ran.weak_checked,
                 !.banned_checked = out.ran.banned_checked,
                 !.oracle_called = out.ran.oracle_called,
                 !.result = out.ran.result]

\* result = self.check_password_strength(password), zxcvbn answering zx
CheckPasswordStrength(self, password, zx) ==
    LET out == check_password_strength(self, password, zx)
    IN  /\ cache' = out.cache
        /\ oracle' = IF out.ran.oracle_called
                     THEN oracle \cup {[password |-> password, answer |-> zx]}
                     ELSE oracle
        /\ last' = CheckRecord(self, password, zx, out)

\* text = self.suggest_improvements(password), zxcvbn answering zx
SuggestImprovements(self, password, zx) ==
    LET out == check_password_strength(self, password, zx)
        suggestions == suggestions_of(password, out.ran.result)
    IN  /\ cache' = out.cache
        /\ oracle' = IF out.ran.oracle_called
                     THEN oracle \cup {[password |-> password, answer |-> zx]}
                     ELSE oracle
        /\ last' = [CheckRecord(self, password, zx, out) EXCEPT
                        !.op = "suggest",
                        !.bullets = suggestions,
                        !.text = suggestions_text(suggestions)]

(***************************************************************************)
(* Spec: one evaluator, built with any of the wordlists, evaluates a       *)
(* password and composes suggestions for it, in any order, any number of   *)
(* times.                                                                  *)
(***************************************************************************)
Init ==
    /\ file \in Files
    /\ input \in Passwords
    /\ \E w \in WordlistFilesFor(input), b \in WordlistFilesFor(input) :
          Started(Disk(w, b), PathFor("e1", WeakPath, w), PathFor("e1", BannedPath, b))
    /\ oracle = {}
    /\ cache = <<>>
    /\ last = Idle
    /\ seen = <<>>
    /\ age = <<>>
    /\ ageSelf = <<>>
    /\ was = NotProbed
    /\ nfresh = 0
    /\ bulk = "e1"

Check ==
    /\ \E zx \in AnswersIn("e1", input, AnswersFor(input)) :
          CheckPasswordStrength("e1", input, zx)
    /\ UNCHANGED <<file, weak_wordlist, banned_wordlist, input, seen, age, ageSelf,
                   was, nfresh, bulk, wordlist_vars>>

Suggest ==
    /\ \E zx \in AnswersIn("e1", input, AnswersFor(input)) :
          SuggestImprovements("e1", input, zx)
    /\ UNCHANGED <<file, weak_wordlist, banned_wordlist, input, seen, age, ageSelf,
                   was, nfresh, bulk, wordlist_vars>>

Next == Check \/ Suggest

Spec == Init /\ [][Next]_vars

(***************************************************************************)
(* SpecGen: the command line generates a password once, with any length,   *)
(* negative ones included (--length is any int), then evaluates it and     *)
(* composes suggestions for it.  The generated string depends on no state, *)
(* so one call from the initial state shows all the generator can do.      *)
(* The command line's evaluator has both wordlists loaded.                 *)
(***************************************************************************)
MaxGenLen == 2

NegGenLen == 2

\* PasswordStrengthCLI.generate_password(length) on evaluator self:
\* password = generate_random_password(length), then check_password(password),
\* which evaluates the password (a miss stores it) and asks for suggestions
\* (a second evaluation, served from the cache); the password is returned
GeneratePassword(self, length) ==
    /\ \E s \in generate_random_password(length) :
       \E zx \in AnswersIn(self, s, AnswersFor(s)) :
          LET out == check_password_strength(self, s, zx)
              again == lru_cache_wrapper(out.cache, self, s, zx)
              suggestions == suggestions_of(s, again.ran.result)
          IN  /\ cache' = again.cache
              /\ oracle' = IF out.ran.oracle_called \/ again.ran.oracle_called
                           THEN oracle \cup {[password |-> s, answer |-> zx]}
                           ELSE oracle
              /\ last' = [CheckRecord(self, s, zx, out) EXCEPT
                              !.op = "generate",
                              !.length = length,
                              !.bullets = suggestions,
                              !.text = s]
    /\ UNCHANGED <<file, weak_wordlist, banned_wordlist, input, seen, age, ageSelf,
                   was, nfresh, bulk, wordlist_vars>>

InitGen ==
    /\ file = NewFile
    /\ input = <<>>
    /\ Started(Disk(BannedFile, BannedFile), PathFor("e1", WeakPath, BannedFile),
               PathFor("e1", BannedPath, BannedFile))
    /\ oracle = {}
    /\ cache = <<>>
    /\ last = Idle
    /\ seen = <<>>
    /\ age = <<>>
    /\ ageSelf = <<>>
    /\ was = NotProbed
    /\ nfresh = 0
    /\ bulk = "e1"

Generate ==
    /\ last.op = "none"
    /\ \E n \in (0 - NegGenLen)..MaxGenLen : GeneratePassword("e1", n)

NextGen == Generate

SpecGen == InitGen /\ [][NextGen]_vars

(***************************************************************************)
(* SpecCache: two evaluators of one process share the lru_cache.  Each     *)
(* evaluates the probe password; evaluator bulk also evaluates a stream of *)
(* passwords never evaluated before, enough of them to fill the cache.     *)
(* History: for each probe key, the first result returned for it (seen),   *)
(* and the number of distinct keys evaluated since its last evaluation, by *)
(* any evaluator (age) and by the key's own evaluator (ageSelf).           *)
(***************************************************************************)
\* a password with every required class
ProbePassword == Pad(MinPad + 1) \o <<"A", "a", "1", "!">>

\* the call of evaluator e with password p, as the history names it
Call(e, p) == <<e, p>>

ProbeKeys == {Call(e, ProbePassword) : e \in Evaluators}

\* the stream reaches ExtraFresh passwords beyond the cache's size
ExtraFresh == 1

MaxFresh == maxsize + ExtraFresh

\* the probe password is evaluated while at most ProbeWindow of the stream
\* have been evaluated, or all but at most ProbeWindow of a cache's size
ProbeWindow == 1

\* the decimal digits of n, four of them: the n-th password of the stream
FreshPassword(n) ==
    LET d == [i \in 0..9 |-> CASE i = 0 -> "0" [] i = 1 -> "1" [] i = 2 -> "2"
                               [] i = 3 -> "3" [] i = 4 -> "4" [] i = 5 -> "5"
                               [] i = 6 -> "6" [] i = 7 -> "7" [] i = 8 -> "8"
                               [] i = 9 -> "9"]
    IN  <<d[(n \div 1000) % 10], d[(n \div 100) % 10], d[(n \div 10) % 10], d[n % 10]>>

\* the answers zxcvbn gives for the probe password
ProbeAnswers ==
    {zx \in Answers :
        \/ zx.score = 2 /\ Len(zx.suggestions) = 2
        \/ zx.score = 4 /\ zx.suggestions = <<>>}

\* key j is evaluated: was it evaluated since key k's last evaluation?
\* (a password of the stream never was; a probe key was iff fewer distinct
\* keys were evaluated since its own last evaluation)
NewSince(j, k) ==
    \/ j \notin ProbeKeys
    \/ age[j] < 0
    \/ age[j] > age[k]

\* the history after key j is evaluated with result r
Evaluated(j, r) ==
    /\ seen' = [k \in ProbeKeys |->
                   IF k = j /\ seen[k] = NoResult THEN r ELSE seen[k]]
    /\ age' = [k \in ProbeKeys |->
                   IF k = j THEN 0
                   ELSE IF age[k] >= 0 /\ NewSince(j, k) THEN age[k] + 1
                   ELSE age[k]]
    /\ ageSelf' = [k \in ProbeKeys |->
                   IF k = j THEN 0
                   ELSE IF age[k] >= 0 /\ NewSince(j, k) /\ j[1] = k[1]
                        THEN ageSelf[k] + 1
                   ELSE ageSelf[k]]
    /\ was' = IF j \in ProbeKeys
              THEN [seen |-> seen[j] # NoResult,
                    recent |-> age[j] >= 0 /\ age[j] < maxsize,
                    recent_self |-> ageSelf[j] >= 0 /\ ageSelf[j] < maxsize]
              ELSE NotProbed

\* the weak wordlist's file: the decoy and the probe password
ProbeFile == TextFile(file_text(<<Decoy, ProbePassword>>))

InitCache ==
    /\ file = NewFile
    /\ input = ProbePassword
    /\ Started(Disk(ProbeFile, NoFile), PathFor("e2", WeakPath, ProbeFile), NoPaths)
    /\ oracle = {}
    /\ cache = <<>>
    /\ last = Idle
    /\ seen = [k \in ProbeKeys |-> NoResult]
    /\ age = [k \in ProbeKeys |-> 0 - 1]
    /\ ageSelf = [k \in ProbeKeys |-> 0 - 1]
    /\ was = NotProbed
    /\ nfresh = 0
    /\ bulk \in Evaluators

CheckProbe ==
    /\ nfresh <= ProbeWindow \/ nfresh >= maxsize - ProbeWindow
    /\ \E self \in Evaluators :
       \E zx \in AnswersIn(self, ProbePassword, AnswersFor(ProbePassword) \cap ProbeAnswers) :
          /\ CheckPasswordStrength(self, ProbePassword, zx)
          /\ Evaluated(Call(self, ProbePassword),
                       check_password_strength(self, ProbePassword, zx).ran.result)
    /\ UNCHANGED <<file, weak_wordlist, banned_wordlist, input, nfresh, bulk,
                   wordlist_vars>>

CheckFresh ==
    /\ nfresh < MaxFresh
    /\ CheckPasswordStrength(bulk, FreshPassword(nfresh), NoAnswer)
    /\ Evaluated(Call(bulk, FreshPassword(nfresh)),
                 check_password_strength(bulk, FreshPassword(nfresh), NoAnswer).ran.result)
    /\ nfresh' = nfresh + 1
    /\ UNCHANGED <<file, weak_wordlist, banned_wordlist, input, bulk, wordlist_vars>>

NextCache == CheckProbe \/ CheckFresh

SpecCache == InitCache /\ [][NextCache]_vars

(***************************************************************************)
(* SpecWordlist: evaluators are constructed with wordlist paths, any       *)
(* number of times, while the file at the weak wordlist's default path is  *)
(* changed in between.  Wordlist is the same in both source files but for  *)
(* the encoding passed to open().                                          *)
(***************************************************************************)
FileChars == {"a", " ", "\n"}

MaxTextLen == 2

Texts == UNION {[1..n -> FileChars] : n \in 0..MaxTextLen}

\* what the weak wordlist's file can be
FileStates == {NoFile, Unreadable} \cup {TextFile(text) : text \in Texts}

\* self = PasswordStrength(weak_wordlist_path, banned_wordlist_path); the
\* name self keeps its evaluator when the constructor raises
NewPasswordStrength(self, weak_wordlist_path, banned_wordlist_path) ==
    \E made \in {PasswordStrength_init(Wordlist_cache, disk, weak_wordlist_path,
                                       banned_wordlist_path)} :
        /\ Wordlist_cache' = made.cache
        /\ weak_wordlist' = IF made.raised = ""
                            THEN [weak_wordlist EXCEPT ![self] = made.weak_wordlist]
                            ELSE weak_wordlist
        /\ banned_wordlist' = IF made.raised = ""
                              THEN [banned_wordlist EXCEPT ![self] = made.banned_wordlist]
                              ELSE banned_wordlist
        /\ loads' = LoadRecords(self, made.calls, first)
        /\ first' = FirstAfter(first, made.calls)
        /\ UNCHANGED <<file, input, oracle, cache, last, seen, age, ageSelf, was,
                       nfresh, bulk, disk>>

InitWordlist ==
    /\ file = NewFile
    /\ input = <<>>
    /\ oracle = {}
    /\ cache = <<>>
    /\ last = Idle
    /\ seen = <<>>
    /\ age = <<>>
    /\ ageSelf = <<>>
    /\ was = NotProbed
    /\ nfresh = 0
    /\ bulk = "e1"
    /\ \E s \in FileStates : Started(Disk(s, BannedFile), NoPaths, NoPaths)

Construct ==
    \E self \in Evaluators, wp \in Paths \cup {NoPath}, bp \in Paths \cup {NoPath} :
        NewPasswordStrength(self, wp, bp)

\* what one change of a file makes of it: removed, made unreadable, emptied,
\* or a character appended
Rewrites(f) ==
    (({NoFile, Unreadable, TextFile(<<>>)}
         \cup {TextFile(Append(f.text, c)) : c \in FileChars}) \cap FileStates) \ {f}

\* the weak wordlist's file is changed
WriteFile ==
    /\ \E s \in Rewrites(disk[WeakPath]) : disk' = [disk EXCEPT ![WeakPath] = s]
    /\ UNCHANGED <<file, weak_wordlist, banned_wordlist, input, oracle, cache, last,
                   seen, age, ageSelf, was, nfresh, bulk, Wordlist_cache, loads, first>>

NextWordlist == Construct \/ WriteFile

SpecWordlist == InitWordlist /\ [][NextWordlist]_vars

(***************************************************************************)
(* Properties                                                              *)
(***************************************************************************)
\* p is an entry of the configured wordlist w
Listed(w, p) == ~w.is_none /\ p \in {w.words[i] : i \in 1..Len(w.words)}

\* p has a character of the class
Has(class, p) == \E i \in 1..Len(p) : p[i] \in class

\* the names of the required classes p lacks, in the fixed order
MissingNames(p) ==
    SelectSeq(<< <<"uppercase letter">>, <<"lowercase letter">>, <<"number">>,
                 <<"special character">> >>,
              LAMBDA n : \/ n = <<"uppercase letter">> /\ ~Has(ascii_uppercase, p)
                         \/ n = <<"lowercase letter">> /\ ~Has(ascii_lowercase, p)
                         \/ n = <<"number">> /\ ~Has(decimal_digits, p)
                         \/ n = <<"special character">> /\ ~Has(special_characters, p))

\* zxcvbn has answered for p
Answered(p) == \E r \in oracle : r.password = p

\* the answer zxcvbn gives for p
OracleAnswer(p) == (CHOOSE r \in oracle : r.password = p).answer

\* the last call was check_password_strength, by an evaluator with
\* wordlists weak and banned
Checked == last.op = "check"
LastWeak == weak_wordlist[last.self]
LastBanned == banned_wordlist[last.self]

\* C1: a password shorter than 12 characters gets exactly ("Too short", 0,
\* "Password should be at least 12 characters long."), whatever its content
\* and whether or not a wordlist holds it, and neither a wordlist nor the
\* oracle is consulted for it.
C1_TooShort ==
    (Checked /\ Len(last.password) < 12) =>
        /\ last.result = StrengthResult("Too short", 0,
               <<"Password should be at least 12 characters long.">>)
        /\ ~last.weak_checked
        /\ ~last.banned_checked
        /\ ~last.oracle_called

\* a short password that both wordlists hold has been evaluated, not from
\* the cache
C1_Witness ==
    /\ Checked /\ ~last.hit
    /\ Len(last.password) < 12
    /\ Listed(LastWeak, last.password)
    /\ Listed(LastBanned, last.password)
    /\ last.result.strength = "Too short"

\* C2: a password of at least 12 characters that the weak wordlist holds gets
\* ("Weak", 0, "Password is commonly used and easily guessable."), also when
\* the banned wordlist holds it too, and the oracle is not called.
C2_WeakList ==
    (Checked /\ Len(last.password) >= 12 /\ Listed(LastWeak, last.password)) =>
        /\ last.result = StrengthResult("Weak", 0,
               <<"Password is commonly used and easily guessable.">>)
        /\ ~last.oracle_called

\* a long password that both wordlists hold has been evaluated, not from the
\* cache
C2_Witness ==
    /\ Checked /\ ~last.hit
    /\ Len(last.password) >= 12
    /\ Listed(LastWeak, last.password)
    /\ Listed(LastBanned, last.password)
    /\ last.result.strength = "Weak"
    /\ last.weak_checked

\* C3: a password of at least 12 characters that the banned wordlist holds
\* and the weak wordlist does not gets ("Banned", 0, "This password is not
\* allowed, as it is commonly found in data leaks."), in both source files.
C3_BannedList ==
    (/\ Checked /\ Len(last.password) >= 12
     /\ Listed(LastBanned, last.password)
     /\ ~Listed(LastWeak, last.password)) =>
        last.result = StrengthResult("Banned", 0,
            <<"This password is not allowed", ", ",
              "as it is commonly found in data leaks.">>)

\* C4: a password of at least 12 characters that neither wordlist holds and
\* that lacks a required class gets strength "Weak" for every oracle score,
\* the oracle's score as its score, and the message "Password lacks
\* complexity. Missing: <names>." with exactly the missing classes, in the
\* order uppercase letter, lowercase letter, number, special character.
C4_ComplexityOverride ==
    (/\ Checked /\ Len(last.password) >= 12
     /\ ~Listed(LastWeak, last.password)
     /\ ~Listed(LastBanned, last.password)
     /\ Len(MissingNames(last.password)) > 0) =>
        /\ Answered(last.password)
        /\ last.result.strength = "Weak"
        /\ last.result.score = OracleAnswer(last.password).score
        /\ last.result.message =
               <<"Password lacks complexity. Missing: ">>
               \o join(<<", ">>, MissingNames(last.password)) \o <<".">>

\* a password lacking two classes has been evaluated with the oracle scoring
\* it 4
C4_Witness ==
    /\ Checked /\ ~last.hit
    /\ Len(last.password) >= 12
    /\ ~Listed(LastWeak, last.password)
    /\ ~Listed(LastBanned, last.password)
    /\ Len(MissingNames(last.password)) = 2
    /\ last.oracle_called
    /\ last.zx.score = 4
    /\ last.result.strength = "Weak"

\* the fixed table from scores to labels
LabelOf(score) ==
    CASE score = 0 -> "Very Weak"
      [] score = 1 -> "Weak"
      [] score = 2 -> "Moderate"
      [] score = 3 -> "Strong"
      [] score = 4 -> "Very Strong"

\* the last call evaluated a password of at least 12 characters, with all
\* four classes, that neither wordlist holds
CheckedComplete ==
    /\ Checked /\ Len(last.password) >= 12
    /\ ~Listed(LastWeak, last.password)
    /\ ~Listed(LastBanned, last.password)
    /\ Len(MissingNames(last.password)) = 0

\* C5: for a password of at least 12 characters with all four classes that
\* neither wordlist holds, the strength is the fixed table applied to the
\* oracle's score, the score is the oracle's score, and a score of 3 or 4
\* gives the message "Password meets all the requirements. Score: {score}/4".
C5_LabelMapping ==
    CheckedComplete =>
        /\ Answered(last.password)
        /\ last.result.score = OracleAnswer(last.password).score
        /\ last.result.strength = LabelOf(OracleAnswer(last.password).score)
        /\ last.result.score >= 3 =>
               last.result.message =
                   <<"Password meets all the requirements. Score: ",
                     str(last.result.score), "/4">>

\* a complete password has been evaluated with the oracle scoring it 4
C5_Witness ==
    /\ CheckedComplete /\ ~last.hit
    /\ last.zx.score = 4
    /\ last.result = StrengthResult("Very Strong", 4,
           <<"Password meets all the requirements. Score: ", "4", "/4">>)

\* C6 as claimed: for such a password scored below 3, the message is
\* "Password is {label}. Suggestions: {s}" with {label} the very string of
\* the strength field and {s} the oracle's suggestions joined in order.
C6_LabelAsInStrength ==
    (CheckedComplete /\ last.result.score < 3) =>
        /\ last.result.strength \in {"Very Weak", "Weak", "Moderate"}
        /\ last.result.message =
               <<"Password is ", last.result.strength, ". ", "Suggestions: ">>
               \o join(<<", ">>, OracleAnswer(last.password).suggestions)

\* the lower-case spelling of the three labels below "Strong"
LowerLabelOf(score) ==
    CASE score = 0 -> "very weak"
      [] score = 1 -> "weak"
      [] score = 2 -> "moderate"

\* C6 as amended: for such a password scored below 3, the message is
\* "Password is {label}. Suggestions: {s}" with {label} the strength field's
\* label in lower case ("very weak", "weak", "moderate") and {s} the oracle's
\* suggestions, in oracle order, joined by a comma and a space.
C6_LabelLowerCase ==
    (CheckedComplete /\ last.result.score < 3) =>
        /\ last.result.strength \in {"Very Weak", "Weak", "Moderate"}
        /\ last.result.strength = LabelOf(last.result.score)
        /\ last.result.message =
               <<"Password is ", LowerLabelOf(last.result.score), ". ", "Suggestions: ">>
               \o join(<<", ">>, OracleAnswer(last.password).suggestions)

\* a complete password has been evaluated with the oracle scoring it 0 and
\* giving two suggestions
C6_Witness ==
    /\ CheckedComplete /\ ~last.hit
    /\ last.zx.score = 0
    /\ Len(last.zx.suggestions) = 2
    /\ last.result.strength = "Very Weak"
    /\ last.result.message =
           <<"Password is ", "very weak", ". ", "Suggestions: ",
             "Add another word or two. Uncommon words are better.", ", ",
             "Avoid sequences">>

\* the last call was check_password_strength of the probe password
CheckedProbe == Checked /\ last.password = ProbePassword

\* C7: on one evaluator, every call of check_password_strength with the same
\* password returns the strength, score and message of the first such call,
\* whatever was evaluated in between, evictions of its cache entry included.
C7_Idempotent ==
    CheckedProbe => last.result = seen[Call(last.self, last.password)]

\* the probe password was evaluated again by the same evaluator after its
\* entry had been evicted, with the same result
C7_Witness ==
    /\ CheckedProbe
    /\ was.seen /\ ~last.hit
    /\ nfresh >= 1000
    /\ last.result = seen[Call(last.self, last.password)]

\* C8 as claimed: for every integer N, generate_random_password(N) returns
\* N characters of the alphabet A-Z, a-z, 0-9, ASCII punctuation.
C8_ExactlyN ==
    last.op = "generate" =>
        /\ Len(last.text) = last.length
        /\ \A i \in 1..Len(last.text) :
               last.text[i] \in ascii_uppercase \cup ascii_lowercase
                                \cup digits \cup punctuation

\* C8 as amended: for every integer N >= 0, generate_random_password(N)
\* returns N characters of the alphabet; for N < 0 it returns the empty
\* string.
C8_NonNegativeN ==
    last.op = "generate" =>
        /\ last.length >= 0 => Len(last.text) = last.length
        /\ last.length < 0 => last.text = <<>>
        /\ \A i \in 1..Len(last.text) :
               last.text[i] \in ascii_uppercase \cup ascii_lowercase
                                \cup digits \cup punctuation

\* a password of two characters, a letter and a punctuation mark, has been
\* generated
C8_Witness ==
    /\ last.op = "generate"
    /\ last.length = 2
    /\ last.text = <<"q", "~">>

\* C9: for a password of at least 12 characters with all four classes,
\* suggest_improvements returns the header and one bullet per suggestion of
\* the oracle for that password, in oracle order, and nothing else.
C9_OracleBullets ==
    (/\ last.op = "suggest"
     /\ Len(last.password) >= 12
     /\ Len(MissingNames(last.password)) = 0) =>
        LET said == IF Answered(last.password)
                    THEN OracleAnswer(last.password).suggestions ELSE <<>>
        IN  /\ last.bullets = said
            /\ last.text = <<"Suggested improvements:\n\n">>
                   \o join(<<"\n">>, [i \in 1..Len(said) |-> <<"- ">> \o said[i]])

\* some entry of the cache has key k
InCache(k) == \E i \in 1..Len(cache) : cache[i].key = k

\* the last call ran no gate and no oracle
RanNothing ==
    ~last.weak_checked /\ ~last.banned_checked /\ ~last.oracle_called

\* C10 as claimed: the cache holds at most 1000 distinct passwords, and the
\* 1000 most recently evaluated distinct passwords of an evaluator are in
\* the cache and served from it.
C10_PerEvaluator ==
    /\ Len(cache) <= 1000
    /\ Cardinality({cache[i].key[2] : i \in 1..Len(cache)}) <= 1000
    /\ \A k \in ProbeKeys : (ageSelf[k] >= 0 /\ ageSelf[k] < 1000) => InCache(k)
    /\ (CheckedProbe /\ was.recent_self) => (last.hit /\ RanNothing)

\* C10 as amended: the cache is one for the process and holds at most 1000
\* (evaluator, password) entries; a store into the full cache removes the
\* least recently used entry of any evaluator; so a call is served from the
\* cache, running nothing, exactly when fewer than 1000 distinct
\* (evaluator, password) pairs were evaluated by all evaluators together
\* since that pair was last evaluated.
C10_SharedCache ==
    /\ Len(cache) <= 1000
    /\ \A k \in ProbeKeys : InCache(k) <=> (age[k] >= 0 /\ age[k] < 1000)
    /\ (CheckedProbe /\ was.recent) => (last.hit /\ RanNothing)
    /\ (CheckedProbe /\ ~was.recent) => ~last.hit

\* the cache is full, one evaluator's probe entry has been evicted by the
\* other evaluator's passwords, and the other probe entry was just served
\* from the cache
C10_Witness ==
    /\ Len(cache) = 1000
    /\ \E k \in ProbeKeys : age[k] >= 1000 /\ ~InCache(k) /\ k[1] # bulk
    /\ CheckedProbe /\ was.recent /\ last.hit

\* the list a Wordlist construction would get by reading the path's file now
ReadNow(p) == read_wordlist(<<>>, disk, p)

\* C11: once a wordlist has been loaded successfully for a path, every later
\* Wordlist construction with the same path, by any evaluator, gets that
\* same list without opening the file again, whatever has become of the
\* file; the list cached for a path is never replaced or removed; and every
\* evaluator's wordlist is the list first loaded for some path.
C11_LoadedOnce ==
    /\ \A p \in DOMAIN first :
          p \in DOMAIN Wordlist_cache /\ Wordlist_cache[p] = first[p]
    /\ \A i \in 1..Len(loads) :
          loads[i].known =>
              /\ loads[i].raised = ""
              /\ ~loads[i].opened
              /\ loads[i].words = first[loads[i].file_path]
    /\ \A e \in Evaluators :
          \A w \in {weak_wordlist[e], banned_wordlist[e]} :
              w.is_none \/ \E p \in DOMAIN first : w = Wordlist(first[p])

\* evaluator e2 has just been constructed with the weak wordlist's path, which
\* evaluator e1 had loaded before; the file has another text by now, and e2
\* got e1's list without opening the file
C11_Witness ==
    /\ ~weak_wordlist["e1"].is_none
    /\ \E i \in 1..Len(loads) :
          /\ loads[i].self = "e2" /\ loads[i].file_path = WeakPath
          /\ loads[i].known /\ ~loads[i].opened
          /\ loads[i].words = weak_wordlist["e1"].words
          /\ weak_wordlist["e2"] = weak_wordlist["e1"]
          /\ ReadNow(WeakPath).raised = ""
          /\ ReadNow(WeakPath).words # loads[i].words

\* a line minus its leading whitespace
RECURSIVE DropLeading(_)
DropLeading(s) ==
    IF s # <<>> /\ Head(s) \in whitespace THEN DropLeading(Tail(s)) ELSE s

\* a line minus its trailing whitespace
RECURSIVE DropTrailing(_)
DropTrailing(s) ==
    IF s # <<>> /\ s[Len(s)] \in whitespace
    THEN DropTrailing(SubSeq(s, 1, Len(s) - 1)) ELSE s

\* the candidates asked for: the characters of the files and an upper-case one
Candidates == UNION {[1..n -> FileChars \cup {"A"}] : n \in 0..MaxTextLen}

\* the load_wordlist calls of the last construction that read the file
Reads == {i \in 1..Len(loads) : loads[i].opened /\ loads[i].raised = ""}

\* C12 as claimed: the loaded wordlist holds each line of the file with only
\* its trailing whitespace removed (leading whitespace is kept), and
\* is_word_in_list(candidate) is true exactly when the candidate equals a
\* line of the file minus its trailing whitespace.
C12_TrailingOnly ==
    \A i \in Reads :
        LET line == lines(loads[i].text)
        IN  /\ Len(loads[i].words) = Len(line)
            /\ \A k \in 1..Len(line) : loads[i].words[k] = DropTrailing(line[k])
            /\ \A c \in Candidates :
                  is_word_in_list(Wordlist(loads[i].words), c)
                      <=> \E k \in 1..Len(line) : c = DropTrailing(line[k])

\* C12 as amended: the loaded wordlist holds each line of the file with its
\* leading and its trailing whitespace removed, in file order, and
\* is_word_in_list(candidate) is true exactly when the candidate equals one
\* of those entries by exact, case-sensitive equality; so a candidate matches
\* a file line iff it equals that line minus its leading and trailing
\* whitespace.  A constructed evaluator holds the list it loaded.
C12_BothEnds ==
    \A i \in Reads :
        LET line == lines(loads[i].text)
        IN  /\ Len(loads[i].words) = Len(line)
            /\ \A k \in 1..Len(line) :
                  loads[i].words[k] = DropLeading(DropTrailing(line[k]))
            /\ \A c \in Candidates :
                  is_word_in_list(Wordlist(loads[i].words), c)
                      <=> \E k \in 1..Len(line) : c = DropLeading(DropTrailing(line[k]))
            /\ loads[Len(loads)].raised = "" =>
                  \E w \in {weak_wordlist[loads[i].self], banned_wordlist[loads[i].self]} :
                      w = Wordlist(loads[i].words)

\* a file whose only line is a space and an "a" has been read: the entry is
\* "a"; the candidate "a" is in the list, the line as written, the line
\* followed by a space and "A" are not
C12_Witness ==
    \E i \in Reads :
        /\ loads[i].text = <<" ", "a">>
        /\ loads[i].words = <<<<"a">>>>
        /\ is_word_in_list(weak_wordlist[loads[i].self], <<"a">>)
        /\ ~is_word_in_list(weak_wordlist[loads[i].self], <<" ", "a">>)
        /\ ~is_word_in_list(weak_wordlist[loads[i].self], <<"a", " ">>)
        /\ ~is_word_in_list(weak_wordlist[loads[i].self], <<"A">>)

====
